---------------------------- MODULE Spec2Model ----------------------------
(***************************************************************************)
(* Linear_Models.ipynb as a state machine.                                 *)
(*                                                                         *)
(* The program is a Jupyter notebook: its state is the kernel's global     *)
(* namespace, its operations are the code cells, and a cell may be run at  *)
(* any time, in any order, any number of times.  A cell is a sequence of   *)
(* statements; a statement that raises stops the cell and leaves in place  *)
(* what the earlier statements of the cell assigned.  The kernel can also  *)
(* run all cells, once each in document order; that run stops at the first *)
(* cell that raises.                                                       *)
(*                                                                         *)
(* writer is a history variable: for every name in the namespace, the cell *)
(* that assigned it last.  mode tells how the cells are run; it never      *)
(* changes.                                                                *)
(*                                                                         *)
(* Modelled cells: the two set-up cells, the fits with scipy.stats and     *)
(* sklearn, the two y_weights cells and every cell that computes a         *)
(* confidence (CL) or prediction (PL) half-width by hand.  The cells that  *)
(* delegate the whole computation to statsmodels' get_prediction and the   *)
(* scipy.odr cells are not modelled.                                       *)
(*                                                                         *)
(* Numbers.  np.random.normal has full support, so the predictors, the     *)
(* observables and the weights are drawn from small sets of integers.      *)
(* Arithmetic is exact: a float is a rational, a signed square root of a   *)
(* rational, +-inf or nan, with IEEE rules for division by zero, inf and   *)
(* nan.  Rounding error is not modelled.                                   *)
(***************************************************************************)
EXTENDS Integers, Sequences, FiniteSets, TLC

VARIABLES glob, err, cell, steps, writer, mode

vars == <<glob, err, cell, steps, writer, mode>>

(***************************************************************************)
(* Bounds of the model.                                                    *)
(***************************************************************************)
\* largest sample count n the univariate set-up cell is run with
MaxN == 3
\* largest sample count n the multivariate set-up cell is run with
MaxNMulti == 5
\* number of cell executions explored from a fresh kernel
MaxSteps == 5

(***************************************************************************)
(* Floats.  [k, num, den, rt]:                                             *)
(*   k = "fin", rt = FALSE :  num / den                                    *)
(*   k = "fin", rt = TRUE  :  sign(num) * sqrt(|num| / den)                *)
(*   k = "inf"             :  num * infinity  (num is 1 or -1)             *)
(*   k = "nan"             :  not a number                                 *)
(*   k = "unrep"           :  a sum of unlike square roots, or a fraction  *)
(*                            whose terms pass MaxInt, which this          *)
(*                            representation cannot hold                   *)
(* den > 0 and gcd(|num|, den) = 1; zero is always rt = FALSE.             *)
(***************************************************************************)
\* the one element of a set of one element: Once({e(v) : v \in {x}}) is e(x) with x
\* evaluated once
Once(S) == CHOOSE r \in S : TRUE

Abs(i) == IF i < 0 THEN -i ELSE i

Sgn(i) == IF i < 0 THEN -1 ELSE IF i > 0 THEN 1 ELSE 0

Max(a, b) == IF a < b THEN b ELSE a

RECURSIVE Gcd(_, _)
Gcd(a, b) ==
  IF b = 0 THEN a ELSE Gcd(b, a % b)

Lowest(nm, dn, g) ==
  [k |-> "fin", num |-> Sgn(dn) * Sgn(nm) * (Abs(nm) \div g), den |-> Abs(dn) \div g,
   rt |-> FALSE]

Rat(nm, dn) ==
  IF dn = 1 THEN [k |-> "fin", num |-> nm, den |-> 1, rt |-> FALSE]
  ELSE Lowest(nm, dn, Gcd(Abs(nm), Abs(dn)))

\* the largest r in lo..hi with r * r <= m
RECURSIVE Isqrt(_, _, _)
Isqrt(m, lo, hi) ==
  IF lo >= hi THEN lo
  ELSE Once({IF mid * mid <= m THEN Isqrt(m, mid, hi) ELSE Isqrt(m, lo, mid - 1) :
               mid \in {(lo + hi + 1) \div 2}})

\* no square above SqrtCap^2 is looked for: 46340^2 is the largest below 2^31
SqrtCap == 46340

Root(m) ==
  Isqrt(m, 0, IF m < SqrtCap THEN m ELSE SqrtCap)

\* sign(nm/dn) * sqrt(|nm/dn|), a rational when numerator and denominator are squares
Surd(nm, dn) ==
  Once({Once({IF rn * rn = Abs(r.num) /\ rd * rd = r.den
              THEN [r EXCEPT !.num = Sgn(r.num) * rn, !.den = rd]
              ELSE [r EXCEPT !.rt = TRUE] :
                rn \in {Root(Abs(r.num))}, rd \in {Root(r.den)}}) :
          r \in {Rat(nm, dn)}})

Unrep == [k |-> "unrep", num |-> 0, den |-> 1, rt |-> FALSE]

\* the integers of the representation are 32 bits wide
MaxInt == 2147483647

MulOk(a, b) == b = 0 \/ Abs(a) <= MaxInt \div Abs(b)

Cross(n1, d1, n2, d2, g1, g2) ==
  IF MulOk(n1 \div g1, n2 \div g2) /\ MulOk(d1 \div g2, d2 \div g1)
  THEN Rat((n1 \div g1) * (n2 \div g2), (d1 \div g2) * (d2 \div g1))
  ELSE Unrep

\* (n1 / d1) * (n2 / d2), reduced crosswise before multiplying
RatMul(n1, d1, n2, d2) ==
  IF n1 = 0 \/ n2 = 0 THEN Rat(0, 1)
  ELSE IF d1 = 1 /\ d2 = 1 THEN IF MulOk(n1, n2) THEN Rat(n1 * n2, 1) ELSE Unrep
  ELSE
  Cross(n1, d1, n2, d2, Gcd(Abs(n1), d2), Gcd(Abs(n2), d1))

\* sign * sqrt((n1 / d1) * (n2 / d2)) for n1, n2 >= 0
SurdMul(sign, n1, d1, n2, d2) ==
  Once({IF MulOk(n1 \div g1, n2 \div g2) /\ MulOk(d1 \div g2, d2 \div g1)
        THEN Surd(sign * (n1 \div g1) * (n2 \div g2), (d1 \div g2) * (d2 \div g1))
        ELSE Unrep : g1 \in {Gcd(n1, d2)}, g2 \in {Gcd(n2, d1)}})

Int2F(i) == [k |-> "fin", num |-> i, den |-> 1, rt |-> FALSE]

NaN == [k |-> "nan", num |-> 0, den |-> 1, rt |-> FALSE]

Inf(s) == [k |-> "inf", num |-> s, den |-> 1, rt |-> FALSE]

IsFin(a) == a.k = "fin"

IsRational(a) == a.k = "fin" /\ ~a.rt

\* whether the square of a finite float can be held
SqOk(a) == a.rt \/ (Abs(a.num) <= SqrtCap /\ a.den <= SqrtCap)

\* the signed square sign(a) * a^2 of a finite float, a rational
SqNum(a) == IF a.rt THEN a.num ELSE Sgn(a.num) * a.num * a.num

SqDen(a) == IF a.rt THEN a.den ELSE a.den * a.den

FSign(a) == Sgn(a.num)

FNeg(a) ==
  IF a.k \in {"nan", "unrep"} THEN a ELSE [a EXCEPT !.num = -a.num]

Common(a, b, g) ==
  IF /\ MulOk(2 * a.num, b.den \div g)
     /\ MulOk(2 * b.num, a.den \div g)
     /\ MulOk(a.den, b.den \div g)
  THEN Rat(a.num * (b.den \div g) + b.num * (a.den \div g), a.den * (b.den \div g))
  ELSE Unrep

FAdd(a, b) ==
  IF a.k = "unrep" \/ b.k = "unrep" THEN Unrep
  ELSE IF a.k = "nan" \/ b.k = "nan" THEN NaN
  ELSE IF a.k = "inf" /\ b.k = "inf" THEN IF a.num = b.num THEN a ELSE NaN
  ELSE IF a.k = "inf" THEN a
  ELSE IF b.k = "inf" THEN b
  ELSE IF a.num = 0 THEN b
  ELSE IF b.num = 0 THEN a
  ELSE IF a.rt \/ b.rt THEN Unrep
  ELSE IF a.den = 1 /\ b.den = 1
       THEN IF MulOk(2, a.num) /\ MulOk(2, b.num) THEN Rat(a.num + b.num, 1) ELSE Unrep
  ELSE Common(a, b, Gcd(a.den, b.den))

FSub(a, b) == FAdd(a, FNeg(b))

FMul(a, b) ==
  IF a.k = "unrep" \/ b.k = "unrep" THEN Unrep
  ELSE IF a.k = "nan" \/ b.k = "nan" THEN NaN
  ELSE IF a.k = "inf" \/ b.k = "inf"
       THEN IF a.num = 0 \/ b.num = 0 THEN NaN ELSE Inf(FSign(a) * FSign(b))
  ELSE IF ~a.rt /\ ~b.rt THEN RatMul(a.num, a.den, b.num, b.den)
  ELSE IF ~SqOk(a) \/ ~SqOk(b) THEN Unrep
  ELSE SurdMul(FSign(a) * FSign(b), Abs(SqNum(a)), SqDen(a), Abs(SqNum(b)), SqDen(b))

\* numpy float division: x / 0 is +-inf, 0 / 0 is nan (a RuntimeWarning, no exception)
FDiv(a, b) ==
  IF a.k = "unrep" \/ b.k = "unrep" THEN Unrep
  ELSE IF a.k = "nan" \/ b.k = "nan" THEN NaN
  ELSE IF a.k = "inf" /\ b.k = "inf" THEN NaN
  ELSE IF a.k = "inf" THEN Inf(a.num * (IF FSign(b) < 0 THEN -1 ELSE 1))
  ELSE IF b.k = "inf" THEN Rat(0, 1)
  ELSE IF b.num = 0 THEN IF a.num = 0 THEN NaN ELSE Inf(FSign(a))
  ELSE IF ~a.rt /\ ~b.rt
       THEN RatMul(FSign(b) * a.num, a.den, b.den, Abs(b.num))
  ELSE IF ~SqOk(a) \/ ~SqOk(b) THEN Unrep
  ELSE SurdMul(FSign(a) * FSign(b), Abs(SqNum(a)), SqDen(a), SqDen(b), Abs(SqNum(b)))

\* np.sqrt of one float: nan for a negative argument (a RuntimeWarning, no exception)
FSqrt(a) ==
  IF a.k \in {"nan", "unrep"} THEN a
  ELSE IF a.k = "inf" THEN IF a.num > 0 THEN a ELSE NaN
  ELSE IF a.num < 0 THEN NaN
  ELSE IF a.rt THEN Unrep
  ELSE Surd(a.num, a.den)

\* a * a; the square of a square root is the rational under the root
FSquare(a) ==
  IF a.k = "fin" /\ a.rt THEN [a EXCEPT !.num = Abs(@), !.rt = FALSE] ELSE FMul(a, a)

\* n1 / d1 < n2 / d2 for d1, d2 > 0: by the integer parts, then by the remainders
QLt(n1, d1, n2, d2) ==
  IF n1 \div d1 # n2 \div d2 THEN n1 \div d1 < n2 \div d2
  ELSE /\ MulOk(n1 % d1, d2)
       /\ MulOk(n2 % d2, d1)
       /\ (n1 % d1) * d2 < (n2 % d2) * d1

\* a < b; FALSE when either is nan, as in IEEE, or when the comparison passes MaxInt
FLt(a, b) ==
  IF a.k \in {"nan", "unrep"} \/ b.k \in {"nan", "unrep"} THEN FALSE
  ELSE IF a.k = "inf" THEN a.num < 0 /\ ~(b.k = "inf" /\ b.num < 0)
  ELSE IF b.k = "inf" THEN b.num > 0
  ELSE IF FSign(a) # FSign(b) THEN FSign(a) < FSign(b)
  ELSE /\ SqOk(a)
       /\ SqOk(b)
       /\ QLt(SqNum(a), SqDen(a), SqNum(b), SqDen(b))

\* a == b as Python compares floats; FALSE when either is nan

(***************************************************************************)
(* Values.  Every Python value the cells handle is [exc, shape, data]:     *)
(* a numpy array of floats in row-major order (shape <<>> for a scalar or  *)
(* a Python number, <<m>> for 1-D, <<r, c>> for 2-D), or, with exc # "",   *)
(* the exception that evaluating the expression raised.  An operation      *)
(* evaluates its operands left to right and raises the first exception.    *)
(***************************************************************************)
\* the first m values of d, as a sequence
RECURSIVE Take(_, _)
Take(d, m) ==
  IF m = 0 THEN <<>> ELSE Append(Take(d, m - 1), d[m])

\* the number of elements of an array of shape sh
Count(sh) == IF Len(sh) = 0 THEN 1 ELSE IF Len(sh) = 1 THEN sh[1] ELSE sh[1] * sh[2]

Arr(sh, d) ==
  [exc |-> "", shape |-> sh, data |-> Take(d, Count(sh))]

Raise(e) == [exc |-> e, shape |-> <<>>, data |-> <<>>]

Scalar(f) == Arr(<<>>, <<f>>)

Num(i) == Scalar(Int2F(i))

Val(a) == a.data[1]

Ndim(a) == Len(a.shape)

Size(a) == Len(a.data)

\* a shape as 2-D: numpy aligns shapes on their last axis
Pad(sh) ==
  IF Len(sh) = 0 THEN <<1, 1>> ELSE IF Len(sh) = 1 THEN <<1, sh[1]>> ELSE sh

BDim(m, k) == IF m = k THEN m ELSE IF m = 1 THEN k ELSE IF k = 1 THEN m ELSE -1

\* a binary ufunc with broadcasting
Elementwise(Op(_, _), a, b) ==
  IF a.exc # "" THEN a
  ELSE IF b.exc # "" THEN b
  ELSE Once({Once({
         IF r = -1 \/ c = -1 THEN Raise("ValueError")
         ELSE Arr(IF nd = 0 THEN <<>> ELSE IF nd = 1 THEN <<c>> ELSE <<r, c>>,
                  [i \in 1..(r * c) |->
                     Op(a.data[(IF pa[1] = 1 THEN 0 ELSE (i - 1) \div c) * pa[2]
                               + (IF pa[2] = 1 THEN 0 ELSE (i - 1) % c) + 1],
                        b.data[(IF pb[1] = 1 THEN 0 ELSE (i - 1) \div c) * pb[2]
                               + (IF pb[2] = 1 THEN 0 ELSE (i - 1) % c) + 1])]) :
           r \in {BDim(pa[1], pb[1])}, c \in {BDim(pa[2], pb[2])},
           nd \in {Max(Ndim(a), Ndim(b))}}) :
         pa \in {Pad(a.shape)}, pb \in {Pad(b.shape)}})

Add(a, b) == Elementwise(FAdd, a, b)

Sub(a, b) == Elementwise(FSub, a, b)

Mul(a, b) == Elementwise(FMul, a, b)

Div(a, b) == Elementwise(FDiv, a, b)

\* a unary ufunc
Map(Op(_), a) ==
  IF a.exc # "" THEN a ELSE Arr(a.shape, [i \in 1..Size(a) |-> Op(a.data[i])])

np_sqrt(a) == Map(FSqrt, a)

Pow2(a) == Map(FSquare, a)

\* a.T
T(a) ==
  IF a.exc # "" THEN a
  ELSE IF Ndim(a) < 2 THEN a
  ELSE LET r == a.shape[1]
           c == a.shape[2]
       IN  Arr(<<c, r>>, [i \in 1..(r * c) |->
                            a.data[((i - 1) % r) * c + ((i - 1) \div r) + 1]])

\* a.flatten()
Flatten(a) ==
  IF a.exc # "" THEN a ELSE Arr(<<Size(a)>>, a.data)

\* a.reshape(-1, 1)
ReshapeCol(a) ==
  IF a.exc # "" THEN a ELSE Arr(<<Size(a), 1>>, a.data)

\* a[0]: the first entry of a 1-D array, the first row of a 2-D array; a Python
\* float is not subscriptable
Index0(a) ==
  IF a.exc # "" THEN a
  ELSE IF Ndim(a) = 0 THEN Raise("TypeError")
  ELSE IF Ndim(a) = 1 THEN Scalar(a.data[1])
  ELSE Arr(<<a.shape[2]>>, [j \in 1..a.shape[2] |-> a.data[j]])

\* a[0,0]
Index00(a) ==
  IF a.exc # "" THEN a
  ELSE IF Ndim(a) < 2 THEN Raise("IndexError")
  ELSE Scalar(a.data[1])

\* a.item(): only an array of size 1 converts to a Python scalar
Item(a) ==
  IF a.exc # "" THEN a
  ELSE IF Size(a) # 1 THEN Raise("ValueError")
  ELSE Scalar(a.data[1])

RECURSIVE FSum(_, _, _)
FSum(f(_), lo, hi) == IF lo > hi THEN Int2F(0) ELSE FAdd(FSum(f, lo, hi - 1), f(hi))

\* a @ b
MatMul(a, b) ==
  IF a.exc # "" THEN a
  ELSE IF b.exc # "" THEN b
  ELSE IF Ndim(a) = 0 \/ Ndim(b) = 0 THEN Raise("ValueError")
  ELSE Once({
         IF sa[2] # sb[1] THEN Raise("ValueError")
         ELSE Arr(IF Ndim(a) = 1 /\ Ndim(b) = 1 THEN <<>>
                  ELSE IF Ndim(a) = 1 THEN <<sb[2]>>
                  ELSE IF Ndim(b) = 1 THEN <<sa[1]>>
                  ELSE <<sa[1], sb[2]>>,
                  [i \in 1..(sa[1] * sb[2]) |->
                     FSum(LAMBDA k : FMul(a.data[((i - 1) \div sb[2]) * sa[2] + k],
                                          b.data[(k - 1) * sb[2] + ((i - 1) % sb[2]) + 1]),
                          1, sa[2])]) :
         sa \in {IF Ndim(a) = 1 THEN <<1, a.shape[1]>> ELSE a.shape},
         sb \in {IF Ndim(b) = 1 THEN <<b.shape[1], 1>> ELSE b.shape}})

\* np.diag: the diagonal matrix of a 1-D array, the diagonal of a 2-D array
np_diag(a) ==
  IF a.exc # "" THEN a
  ELSE IF Ndim(a) = 0 THEN Raise("ValueError")
  ELSE IF Ndim(a) = 1
       THEN LET m == a.shape[1]
            IN  Arr(<<m, m>>, [i \in 1..(m * m) |->
                                 IF (i - 1) \div m = (i - 1) % m
                                 THEN a.data[(i - 1) \div m + 1] ELSE Int2F(0)])
  ELSE LET m == IF a.shape[1] < a.shape[2] THEN a.shape[1] ELSE a.shape[2]
       IN  Arr(<<m>>, [i \in 1..m |-> a.data[(i - 1) * a.shape[2] + i]])

\* the builtin sum(a): 0 + a[0] + a[1] + ..., over the first axis
PySum(a) ==
  IF a.exc # "" THEN a
  ELSE IF Ndim(a) = 0 THEN Raise("TypeError")
  ELSE IF Ndim(a) = 1
       THEN LET e(i) == a.data[i] IN Scalar(FSum(e, 1, a.shape[1]))
  ELSE Arr(<<a.shape[2]>>,
           [j \in 1..a.shape[2] |->
              LET e(i) == a.data[(i - 1) * a.shape[2] + j]
              IN  FSum(e, 1, a.shape[1])])

\* np.linalg.norm(a, 2): the vector 2-norm of a 1-D array; the matrix 2-norm of a
\* 2-D array, which for a single column or row is the vector 2-norm
np_linalg_norm(a) ==
  IF a.exc # "" THEN a
  ELSE IF Ndim(a) = 2 /\ a.shape[1] > 1 /\ a.shape[2] > 1 THEN Scalar(Unrep)
  ELSE LET e(i) == FSquare(a.data[i]) IN Scalar(FSqrt(FSum(e, 1, Size(a))))

(***************************************************************************)
(* Linear algebra.  A matrix of rationals is scaled by the least common     *)
(* multiple of its denominators; determinant and adjugate are then computed *)
(* over the integers.                                                       *)
(***************************************************************************)
RECURSIVE ISum(_, _, _)
ISum(f(_), lo, hi) == IF lo > hi THEN 0 ELSE ISum(f, lo, hi - 1) + f(hi)

RECURSIVE LcmDen(_, _)
LcmDen(d, i) ==
  IF i = 0 THEN 1
  ELSE Once({(l \div Gcd(l, d[i].den)) * d[i].den : l \in {LcmDen(d, i - 1)}})

\* M without row i and column j
Minor(M, i, j) ==
  LET m == Len(M) - 1
  IN  Take([r \in 1..m |->
              Take([c \in 1..m |-> M[IF r < i THEN r ELSE r + 1][IF c < j THEN c ELSE c + 1]],
                   m)],
           m)

RECURSIVE IDet(_)
IDet(M) ==
  IF Len(M) = 1 THEN M[1][1]
  ELSE IF Len(M) = 2 THEN M[1][1] * M[2][2] - M[1][2] * M[2][1]
  ELSE LET term(j) == (IF j % 2 = 1 THEN 1 ELSE -1) * M[1][j] * IDet(Minor(M, 1, j))
       IN  ISum(term, 1, Len(M))

Cofactor(M, i, j) ==
  IF Len(M) = 1 THEN 1
  ELSE (IF (i + j) % 2 = 0 THEN 1 ELSE -1) * IDet(Minor(M, i, j))

AllRational(a) == \A i \in 1..Size(a) : IsRational(a.data[i])

\* the square array a times scale, as rows of integers
IntRows(a, scale) ==
  LET m == a.shape[1]
  IN  Take([i \in 1..m |->
              Take([j \in 1..m |->
                      LET e == a.data[(i - 1) * m + j] IN e.num * (scale \div e.den)],
                   m)],
           m)

\* the square array a as rows of integers, scaled by the least common denominator
Scaled(a) ==
  Once({IntRows(a, L) : L \in {LcmDen(a.data, Size(a))}})

IsSquare(a) == Ndim(a) = 2 /\ a.shape[1] = a.shape[2]

\* whether the square array a of rationals is singular
Singular(a) ==
  IDet(Scaled(a)) = 0

\* the inverse of a from M = L a over the integers and det = |M|: L adj(M) / det
Adjugate(a, L, M, det) ==
  LET m == a.shape[1]
  IN  IF det = 0 THEN Raise("LinAlgError")
      ELSE Arr(a.shape,
               [i \in 1..(m * m) |->
                  LET r == (i - 1) \div m + 1
                      c == ((i - 1) % m) + 1
                  IN  FMul(Int2F(L), Rat(Cofactor(M, c, r), det))])

\* np.linalg.inv: LinAlgError for an array that is not square or is singular
np_linalg_inv(a) ==
  IF a.exc # "" THEN a
  ELSE IF ~IsSquare(a) THEN Raise("LinAlgError")
  ELSE IF ~AllRational(a) THEN Arr(a.shape, [i \in 1..Size(a) |-> Unrep])
  ELSE Once({Once({Adjugate(a, L, M, det) : det \in {IDet(M)}}) :
               L \in {LcmDen(a.data, Size(a))}, M \in {Scaled(a)}})

\* the columns J (a sequence of column numbers) of the 2-D array a
Cols(a, J) ==
  Arr(<<a.shape[1], Len(J)>>,
      [i \in 1..(a.shape[1] * Len(J)) |->
         a.data[((i - 1) \div Len(J)) * a.shape[2] + J[((i - 1) % Len(J)) + 1]]])

\* the rows J of the 2-D array a
Rows(a, J) == T(Cols(T(a), J))

\* X^T diag(w) Z for 2-D arrays X, Z and a 1-D array w of weights
Gram(X, w, Z) ==
  Once({
    Arr(IF Ndim(Z) = 1 THEN <<r>> ELSE <<r, c>>,
        [i \in 1..(r * c) |->
           FSum(LAMBDA k : FMul(FMul(X.data[(k - 1) * r + ((i - 1) \div c) + 1], w.data[k]),
                                Z.data[(k - 1) * c + ((i - 1) % c) + 1]),
                1, X.shape[1])]) :
    r \in {X.shape[2]}, c \in {IF Ndim(Z) = 1 THEN 1 ELSE Z.shape[2]}})

\* a maximal set of linearly independent columns of X, chosen left to right, read
\* off G = X^T diag(w) X: the columns J are independent when G[J, J] is regular
RECURSIVE IndepCols(_, _)
IndepCols(G, j) ==
  IF j = 0 THEN <<>>
  ELSE Once({IF Singular(Rows(Cols(G, Append(J, j)), Append(J, j))) THEN J
             ELSE Append(J, j) : J \in {IndepCols(G, j - 1)}})

\* the solution of minimum norm from G = X^T diag(w) X, Xy = X^T diag(w) y and the
\* independent columns J.  With X = X_J C, the solutions are the b with C b = g, g
\* the solution for X_J, and the one of minimum norm is C^T (C C^T)^-1 g.
MinNorm(G, Xy, J, Gi) ==
  IF Len(J) = 0 THEN Arr(IF Ndim(Xy) = 1 THEN <<G.shape[2]>> ELSE <<G.shape[2], 1>>,
                         [i \in 1..G.shape[2] |-> Int2F(0)])
  ELSE Once({
         IF Len(J) = G.shape[2] THEN g
         ELSE Once({MatMul(T(C), MatMul(np_linalg_inv(MatMul(C, T(C))), g)) :
                      C \in {MatMul(Gi, Rows(G, J))}}) :
         g \in {MatMul(Gi, IF Ndim(Xy) = 1
                            THEN Arr(<<Len(J)>>, [i \in 1..Len(J) |-> Xy.data[J[i]]])
                            ELSE Rows(Xy, J))}})

\* scipy.linalg.lstsq on (sqrt(w) X, sqrt(w) y): the least-squares solution of
\* minimum norm, a (c, 1) array for a 2-D y
Lstsq(X, w, y) ==
  Once({Once({Once({MinNorm(G, Xy, J, Gi) : Gi \in {np_linalg_inv(Rows(Cols(G, J), J))}}) :
                J \in {IndepCols(G, G.shape[2])}}) :
          G \in {Gram(X, w, X)}, Xy \in {Gram(X, w, y)}})

(***************************************************************************)
(* Library calls.                                                          *)
(***************************************************************************)
\* Python's None
NoneV == [exc |-> "", shape |-> <<0>>, data |-> <<>>]

Ones(m) == Arr(<<m>>, [i \in 1..m |-> Int2F(1)])

Full(m, f) ==
  Arr(<<m>>, [i \in 1..m |-> f])

IsConst(a) ==
  \A i \in 1..Size(a) : a.data[i] = a.data[1]

\* statsmodels.tools.add_constant(x) for an (n, 1) array, with its defaults
\* prepend=True, has_constant='skip': a column of ones is put in front, unless x
\* is itself a constant non-zero column, in which case x is returned as it is
add_constant(x) ==
  IF x.exc # "" THEN x
  ELSE IF IsConst(x) /\ x.data[1].num # 0 THEN x
  ELSE Arr(<<x.shape[1], 2>>,
           [i \in 1..(2 * x.shape[1]) |->
              IF i % 2 = 1 THEN Int2F(1) ELSE x.data[i \div 2]])

\* Student-t quantiles to one decimal: q = 0.975 and q = 0.75
T975(df) ==
  CASE df = 1 -> 127 [] df = 2 -> 43 [] df = 3 -> 32 [] df = 4 -> 28
    [] df = 5 -> 26 [] df = 6 -> 24 [] df = 7 -> 24 [] df = 8 -> 23
    [] OTHER -> 20

T75(df) ==
  CASE df = 1 -> 10 [] df = 2 -> 8 [] df = 3 -> 8 [] OTHER -> 7

\* scipy.stats.t.ppf(q, df): nan for df <= 0 or q outside [0, 1], -inf at q = 0,
\* inf at q = 1, antisymmetric about q = 1/2
FTppf(q, df) ==
  IF q.k # "fin" \/ df.k # "fin" THEN NaN
  ELSE IF df.num <= 0 \/ df.den # 1 THEN NaN
  ELSE IF FLt(q, Int2F(0)) \/ FLt(Int2F(1), q) THEN NaN
  ELSE IF q = Int2F(0) THEN Inf(-1)
  ELSE IF q = Int2F(1) THEN Inf(1)
  ELSE IF q = Rat(1, 2) THEN Int2F(0)
  ELSE IF q = Rat(39, 40) THEN Rat(T975(df.num), 10)
  ELSE IF q = Rat(1, 40) THEN Rat(-T975(df.num), 10)
  ELSE IF q = Rat(3, 4) THEN Rat(T75(df.num), 10)
  ELSE IF q = Rat(1, 4) THEN Rat(-T75(df.num), 10)
  ELSE Unrep

stats_t_ppf(q, df) == Elementwise(FTppf, q, df)

\* scipy.stats.linregress(x, y) on 1-D arrays: ValueError when the lengths differ,
\* when there are fewer than two points or when all x are identical
LinregressCheck(x, y) ==
  IF x.exc # "" THEN x.exc
  ELSE IF y.exc # "" THEN y.exc
  ELSE IF Size(x) # Size(y) \/ Size(x) < 2 \/ IsConst(x) THEN "ValueError"
  ELSE ""

LinregressSlope(x, y) ==
  LET m == Num(Size(x))
  IN  Div(Sub(Mul(m, PySum(Mul(x, y))), Mul(PySum(x), PySum(y))),
          Sub(Mul(m, PySum(Mul(x, x))), Mul(PySum(x), PySum(x))))

\* ymean - slope * xmean
LinregressIntercept(x, y, slope) ==
  Sub(Div(PySum(y), Num(Size(x))), Mul(slope, Div(PySum(x), Num(Size(x)))))

\* sklearn.linear_model.LinearRegression.fit(X, y, sample_weight): X is (n, c),
\* y is (n, 1); sample_weight is None, a number or a 1-D array of length n
SkCheck(X, y, sw) ==
  IF X.exc # "" THEN X.exc
  ELSE IF y.exc # "" THEN y.exc
  ELSE IF sw.exc # "" THEN sw.exc
  ELSE IF X.shape[1] # y.shape[1] THEN "ValueError"
  ELSE IF sw = NoneV THEN ""
  ELSE IF Ndim(sw) = 2 THEN "ValueError"
  ELSE IF Ndim(sw) = 1 /\ sw.shape[1] # X.shape[1] THEN "ValueError"
  ELSE ""

SkWeights(X, sw) ==
  IF sw = NoneV THEN Ones(X.shape[1])
  ELSE IF Ndim(sw) = 0 THEN Full(X.shape[1], Val(sw))
  ELSE sw

\* column means that divide by the number of rows, not by the sum of the weights:
\* what the scale invariance of C9 rests on
SkOffsetByRows(X, w) ==
  Div(MatMul(Arr(<<1, Size(w)>>, w.data), X), Num(Size(w)))

\* the weighted column means, a (1, c) array
SkOffset(X, w) ==
  Div(MatMul(Arr(<<1, Size(w)>>, w.data), X), PySum(w))

\* coef_, a (1, c) array: the centred (fit_intercept) weighted least-squares solution
SkCoef(X, y, sw, fit_intercept) ==
  Once({T(Lstsq(IF fit_intercept THEN Sub(X, SkOffset(X, w)) ELSE X, w,
                IF fit_intercept THEN Sub(y, SkOffset(y, w)) ELSE y)) :
          w \in {SkWeights(X, sw)}})

\* intercept_ from coef_: a (1,) array, or the Python float 0.0 without fit_intercept
SkIntercept(X, y, sw, fit_intercept, coef) ==
  IF ~fit_intercept THEN Num(0)
  ELSE Flatten(Sub(SkOffset(y, SkWeights(X, sw)),
                   MatMul(SkOffset(X, SkWeights(X, sw)), T(coef))))

(***************************************************************************)
(* The kernel.  glob is the global namespace, a function from the names    *)
(* that are bound to their values; the attributes of a fit result are      *)
(* bound as "object.attribute".  A cell runs on st = [g, err]: g the       *)
(* namespace so far, err the exception raised so far ("" for none).        *)
(***************************************************************************)
\* reading a global: NameError when the name is not bound
Load(st, name) ==
  IF name \in DOMAIN st.g THEN st.g[name] ELSE Raise("NameError")

Bind(g, name, v) == (name :> v) @@ g

\* name = v
Assign(st, name, v) ==
  IF st.err # "" THEN st
  ELSE IF v.exc # "" THEN [st EXCEPT !.err = v.exc]
  ELSE [st EXCEPT !.g = Bind(st.g, name, v), !.w = @ \cup {name}]

\* an expression statement
Expr(st, v) ==
  IF st.err # "" \/ v.exc = "" THEN st ELSE [st EXCEPT !.err = v.exc]

\* the first exception among the values of an f-string, in order
RECURSIVE FirstExc(_)
FirstExc(vs) ==
  IF Len(vs) = 0 THEN Num(0)
  ELSE IF Head(vs).exc # "" THEN Head(vs)
  ELSE FirstExc(Tail(vs))

\* print(f"...") of the values vs
PyPrint(st, vs) == Expr(st, FirstExc(vs))

\* {v:.4f}: an array of more than zero dimensions takes no float format
Fmt4f(v) ==
  IF v.exc # "" THEN v ELSE IF Ndim(v) > 0 THEN Raise("TypeError") ELSE v

\* a cell starts on the namespace g and has assigned no name yet
Start(g) == [g |-> g, err |-> "", w |-> {}]

\* one statement after another: Stmt runs on the outcome of what came before
Then(st0, Stmt(_)) == Once({Stmt(st) : st \in {st0}})

ColVec(s) == Arr(<<Len(s), 1>>, [i \in 1..Len(s) |-> Int2F(s[i])])

\* stats.t.ppf(q = 1-(alpha/2), df = n-p)
TCrit(st) ==
  stats_t_ppf(Sub(Num(1), Div(Load(st, "alpha"), Num(2))),
              Sub(Load(st, "n"), Load(st, "p")))

(***************************************************************************)
(* Program constants.                                                      *)
(***************************************************************************)
\* p of the univariate section: slope and intercept
PUni == 2
\* p of the multivariate section: three slopes and intercept
PMulti == 4
\* x_to_predict
XToPredict == 6

\* y_sigma = 3.5, in both set-up cells
YSigma == Rat(7, 2)

\* alpha = 1-.95
AlphaLiteral == Rat(1, 20)

\* the query of the univariate section, which a multivariate set-up that did not assign
\* x_to_predict_col_vec would leave in scope
QueryUni == <<1, XToPredict>>

\* x_to_predict_col_vec of the multivariate section
QueryMulti == <<1, 6, 100, 5>>

(***************************************************************************)
(* The cells.                                                              *)
(***************************************************************************)
\* lines 61-83: the univariate set-up.  nn is n; xs, ys (length nn) are x and y
\* after the noise is added; al is alpha.
UniSetupBody(st, nn, xs, ys, al) ==
  Then(Then(Then(Then(Then(Then(Then(Then(
    Assign(st, "n", Num(nn)),
    LAMBDA s : Assign(s, "p", Num(PUni))),
    LAMBDA s : Assign(s, "y_sigma", Scalar(YSigma))),
    LAMBDA s : Assign(s, "x", ColVec(xs))),
    LAMBDA s : Assign(s, "x_design", add_constant(Load(s, "x")))),
    LAMBDA s : Assign(s, "y", ColVec(ys))),
    LAMBDA s : Assign(s, "x_to_predict", Num(XToPredict))),
    LAMBDA s : Assign(s, "x_to_predict_col_vec",
                      Arr(<<2, 1>>, <<Int2F(1), Val(Load(s, "x_to_predict"))>>))),
    LAMBDA s : Assign(s, "alpha", Scalar(al)))

\* sp_result = stats.linregress(xf, yr)
LinregressFit(st, xf, yr) ==
  IF st.err # "" THEN st
  ELSE IF LinregressCheck(xf, yr) # "" THEN [st EXCEPT !.err = LinregressCheck(xf, yr)]
  ELSE Then(Assign(st, "sp_result.slope", LinregressSlope(xf, yr)),
            LAMBDA s : Assign(s, "sp_result.intercept",
                              LinregressIntercept(xf, yr, Load(s, "sp_result.slope"))))

\* lines 116-121: stats.linregress
LinregressBody(st) ==
  Then(Then(
    Assign(st, "x_row", Flatten(Load(st, "x"))),
    LAMBDA s : Assign(s, "y_row", Flatten(Load(s, "y")))),
    LAMBDA s : LinregressFit(s, Flatten(Load(s, "x")), Load(s, "y_row")))

SpSlope(st) == Load(st, "sp_result.slope")

SpIntercept(st) == Load(st, "sp_result.intercept")

SkSlope(st) == Index00(Load(st, "sk_result.coef_"))

SkIntercept0(st) == Index0(Load(st, "sk_result.intercept_"))

SkwSlope(st) == Index00(Load(st, "sk_weighted_result.coef_"))

SkwIntercept0(st) == Index0(Load(st, "sk_weighted_result.intercept_"))

\* (x_to_predict_col_vec.T @ np.linalg.inv(x_design.T @ x_design) @ x_to_predict_col_vec)
Leverage(st) ==
  MatMul(MatMul(T(Load(st, "x_to_predict_col_vec")),
                np_linalg_inv(MatMul(T(Load(st, "x_design")), Load(st, "x_design")))),
         Load(st, "x_to_predict_col_vec"))

\* the same with x_design.T @ np.diag(w) @ x_design
LeverageW(st, w) ==
  MatMul(MatMul(T(Load(st, "x_to_predict_col_vec")),
                np_linalg_inv(MatMul(MatMul(T(Load(st, "x_design")), np_diag(w)),
                                     Load(st, "x_design")))),
         Load(st, "x_to_predict_col_vec"))

\* the confidence half-width with the leverage itself in the place of its root
CLMagnitudeNoRoot(st) ==
  Mul(Mul(TCrit(st), Load(st, "s_value")), Load(st, "inner_sqrt_term"))

\* stats.t.ppf(...) * s_value * np.sqrt(inner_sqrt_term)
CLMagnitude(st) ==
  Mul(Mul(TCrit(st), Load(st, "s_value")), np_sqrt(Load(st, "inner_sqrt_term")))

\* the prediction half-width without the 1 + under the root: what the strictness of
\* C1 rests on
PLMagnitudeNoOne(st) ==
  Mul(Mul(TCrit(st), Load(st, "s_value")), np_sqrt(Load(st, "inner_sqrt_term")))

\* stats.t.ppf(...) * s_value * np.sqrt(1+inner_sqrt_term)
PLMagnitude(st) ==
  Mul(Mul(TCrit(st), Load(st, "s_value")),
      np_sqrt(Add(Num(1), Load(st, "inner_sqrt_term"))))

\* stats.t.ppf(...) * np.sqrt(s_squared_value * inner_sqrt_term)
CLMagnitudeW(st) ==
  Mul(TCrit(st), np_sqrt(Mul(Load(st, "s_squared_value"), Load(st, "inner_sqrt_term"))))

\* stats.t.ppf(...) * np.sqrt(s_squared_value + s_squared_value * inner_sqrt_term)
PLMagnitudeW(st) ==
  Mul(TCrit(st),
      np_sqrt(Add(Load(st, "s_squared_value"),
                  Mul(Load(st, "s_squared_value"), Load(st, "inner_sqrt_term")))))

\* np.linalg.norm(residuals, 2) / np.sqrt(n - p)
SValue(st) ==
  Div(np_linalg_norm(Load(st, "residuals")),
      np_sqrt(Sub(Load(st, "n"), Load(st, "p"))))

\* the weighted residual variance over n instead of n - p
SSquaredValueByN(st) ==
  Div(PySum(Mul(Load(st, "y_weights"), Pow2(Load(st, "residuals")))), Load(st, "n"))

\* sum(y_weights * residuals**2) / (n - p)
SSquaredValue(st) ==
  Div(PySum(Mul(Load(st, "y_weights"), Pow2(Load(st, "residuals")))),
      Sub(Load(st, "n"), Load(st, "p")))

PrintCL(st) ==
  PyPrint(st, <<Load(st, "x_to_predict"), Fmt4f(Load(st, "y_estimated")),
                Fmt4f(Load(st, "one_sided_CL_magnitude"))>>)

PrintPL(st) ==
  PyPrint(st, <<Load(st, "x_to_predict"), Fmt4f(Load(st, "y_estimated")),
                Fmt4f(Load(st, "one_sided_PL_magnitude"))>>)

\* lines 138-147 and 211-220: the univariate unweighted CL cell, for the fit whose
\* slope and intercept are Slope(st) and Intercept(st)
UniCLBody(st, Slope(_), Intercept(_)) ==
  Then(Then(Then(Then(Then(
    Assign(st, "residuals",
           Sub(Load(st, "y_row"), Add(Mul(Load(st, "x_row"), Slope(st)), Intercept(st)))),
    LAMBDA s : Assign(s, "s_value", SValue(s))),
    LAMBDA s : Assign(s, "y_estimated",
                      Add(Mul(Load(s, "x_to_predict"), Slope(s)), Intercept(s)))),
    LAMBDA s : Assign(s, "inner_sqrt_term", Index00(Leverage(s)))),
    LAMBDA s : Assign(s, "one_sided_CL_magnitude", CLMagnitude(s))),
    LAMBDA s : PrintCL(s))

\* lines 164-166, 237-239 and 674-676: the unweighted PL cell
PLBody(st) ==
  Then(Assign(st, "one_sided_PL_magnitude", PLMagnitude(st)), LAMBDA s : PrintPL(s))

\* lines 409-411 and 848-850: the weighted PL cell
PLWBody(st) ==
  Then(Assign(st, "one_sided_PL_magnitude", PLMagnitudeW(st)), LAMBDA s : PrintPL(s))

\* obj = LinearRegression(fit_intercept).fit(X, y, sample_weight=sw)
FitBody(st, obj, X, y, sw, fit_intercept) ==
  LET chk == SkCheck(X, y, sw)
  IN  IF st.err # "" THEN st
      ELSE IF chk # "" THEN [st EXCEPT !.err = chk]
      ELSE Then(Assign(st, obj \o ".coef_", SkCoef(X, y, sw, fit_intercept)),
                LAMBDA s : Assign(s, obj \o ".intercept_",
                                  SkIntercept(X, y, sw, fit_intercept,
                                              Load(s, obj \o ".coef_"))))

\* lines 191-194
UniSkFitBody(st) ==
  FitBody(st, "sk_result", Load(st, "x"), Load(st, "y"), NoneV, TRUE)

\* the values of np.random.normal(loc=y_sigma, scale=y_sigma/10, size=(n,)) are zs
\* 1/abs(zs)**2
YWeights(st, zs) ==
  IF Load(st, "y_sigma").exc # "" THEN Load(st, "y_sigma")
  ELSE IF Load(st, "n").exc # "" THEN Load(st, "n")
  ELSE Div(Num(1), Pow2(Arr(<<Len(zs)>>, [i \in 1..Len(zs) |-> [zs[i] EXCEPT !.num = Abs(@)]])))

\* line 338
UniWeightsBody(st, zs) == Assign(st, "y_weights", YWeights(st, zs))

\* lines 363-366
UniSkwFitBody(st) ==
  FitBody(st, "sk_weighted_result", Load(st, "x"), Load(st, "y"),
          Load(st, "y_weights"), TRUE)

\* lines 383-392: the univariate weighted CL cell
UniCLWBody(st) ==
  Then(Then(Then(Then(Then(
    Assign(st, "residuals",
           Sub(Load(st, "y_row"),
               Add(Mul(Load(st, "x_row"), SkwSlope(st)), SkwIntercept0(st)))),
    LAMBDA s : Assign(s, "s_squared_value", SSquaredValue(s))),
    LAMBDA s : Assign(s, "y_estimated",
                      Add(Mul(Load(s, "x_to_predict"), SkwSlope(s)), SkwIntercept0(s)))),
    LAMBDA s : Assign(s, "inner_sqrt_term", Index00(LeverageW(s, Load(s, "y_weights"))))),
    LAMBDA s : Assign(s, "one_sided_CL_magnitude", CLMagnitudeW(s))),
    LAMBDA s : PrintCL(s))

\* lines 569-596: the multivariate set-up.  nn is n; c1, c2, c3 (length nn) are the
\* predictor columns and ys is y after the noise is added; al is alpha.
MultiSetupBody(st, nn, c1, c2, c3, ys, al) ==
  Then(Then(Then(Then(Then(Then(
    Assign(st, "n", Num(nn)),
    LAMBDA s : Assign(s, "p", Num(PMulti))),
    LAMBDA s : Assign(s, "y_sigma", Scalar(YSigma))),
    LAMBDA s : Assign(s, "x_design",
                      LET pp == Val(Load(s, "p")).num
                      IN  Arr(<<nn, pp>>,
                              [i \in 1..(nn * pp) |->
                                 LET r == (i - 1) \div pp + 1
                                     c == (i - 1) % pp
                                 IN  Int2F(CASE c = 1 -> c1[r] [] c = 2 -> c2[r]
                                             [] c = 3 -> c3[r] [] OTHER -> 1)]))),
    LAMBDA s : Assign(s, "y", ColVec(ys))),
    LAMBDA s : Assign(s, "x_to_predict_col_vec", ColVec(QueryMulti))),
    LAMBDA s : Assign(s, "alpha", Scalar(al)))

\* lines 628-631
MultiSkFitBody(st) ==
  FitBody(st, "sk_result", Load(st, "x_design"), Load(st, "y"), NoneV, FALSE)

\* y - x_design @ coef_.T
MultiResiduals(st, coef) ==
  Sub(Load(st, "y"), MatMul(Load(st, "x_design"), T(Load(st, coef))))

\* (x_to_predict_col_vec.T @ coef_.T).item()
MultiEstimate(st, coef) ==
  Item(MatMul(T(Load(st, "x_to_predict_col_vec")), T(Load(st, coef))))

\* the CL cells of the multivariate section print x_to_predict_col_vec.T[0, 1:]
PrintCLMulti(st) ==
  PyPrint(st, <<Load(st, "x_to_predict_col_vec"), Fmt4f(Load(st, "y_estimated")),
                Fmt4f(Load(st, "one_sided_CL_magnitude"))>>)

\* lines 648-657: the multivariate unweighted CL cell
MultiCLBody(st) ==
  Then(Then(Then(Then(Then(
    Assign(st, "residuals", MultiResiduals(st, "sk_result.coef_")),
    LAMBDA s : Assign(s, "s_value", SValue(s))),
    LAMBDA s : Assign(s, "y_estimated", MultiEstimate(s, "sk_result.coef_"))),
    LAMBDA s : Assign(s, "inner_sqrt_term", Index00(Leverage(s)))),
    LAMBDA s : Assign(s, "one_sided_CL_magnitude", CLMagnitude(s))),
    LAMBDA s : PrintCLMulti(s))

\* lines 775-777: y_weights, then y_weights.reshape(-1, 1)
MultiWeightsBody(st, zs) ==
  Then(Assign(st, "y_weights", YWeights(st, zs)),
       LAMBDA s : Assign(s, "y_weights", ReshapeCol(Load(s, "y_weights"))))

\* lines 802-805
MultiSkwFitBody(st) ==
  FitBody(st, "sk_weighted_result", Load(st, "x_design"), Load(st, "y"),
          Index0(T(Load(st, "y_weights"))), FALSE)

\* lines 822-831: the multivariate weighted CL cell
MultiCLWBody(st) ==
  Then(Then(Then(Then(Then(
    Assign(st, "residuals", MultiResiduals(st, "sk_weighted_result.coef_")),
    LAMBDA s : Assign(s, "s_squared_value", Item(SSquaredValue(s)))),
    LAMBDA s : Assign(s, "y_estimated", MultiEstimate(s, "sk_weighted_result.coef_"))),
    LAMBDA s : Assign(s, "inner_sqrt_term",
                      Item(LeverageW(s, Index0(T(Load(s, "y_weights"))))))),
    LAMBDA s : Assign(s, "one_sided_CL_magnitude", CLMagnitudeW(s))),
    LAMBDA s : PrintCLMulti(s))

(***************************************************************************)
(* What the random draws and the edited literals range over.               *)
(***************************************************************************)
\* x = linspace + noise: evenly spaced, constant
Evenly(nn) == [i \in 1..nn |-> i - 1]

Const(nn, c) == [i \in 1..nn |-> c]

\* y = line + noise: on the line, off the line at the last point
OnLine(nn) == [i \in 1..nn |-> i - 1]

OffLine(nn) == [i \in 1..nn |-> IF i = nn THEN 0 ELSE i - 1]

\* c in row k, 0 in the other rows
Unit(nn, k, c) == [i \in 1..nn |-> IF i = k THEN c ELSE 0]

\* the edits of the univariate set-up cell: n, x, y and alpha
UniInputs ==
  {[n |-> MaxN, x |-> Evenly(MaxN), y |-> ys, alpha |-> AlphaLiteral] :
     ys \in {OnLine(MaxN), OffLine(MaxN)}}
    \cup {[n |-> MaxN, x |-> Const(MaxN, 1), y |-> OffLine(MaxN), alpha |-> AlphaLiteral],
          [n |-> PUni, x |-> Evenly(PUni), y |-> OnLine(PUni), alpha |-> AlphaLiteral],
          [n |-> MaxN, x |-> Evenly(MaxN), y |-> OffLine(MaxN), alpha |-> Int2F(1)]}

\* the predictor columns: linearly independent, or the second a multiple of the first
Indep(nn) == <<Unit(nn, 1, 6), Unit(nn, 2, 10), Unit(nn, 3, 5)>>

Collinear(nn) == <<Unit(nn, 1, 6), Unit(nn, 1, 10), Unit(nn, 3, 5)>>

\* the edits of the multivariate set-up cell: n, the columns, y and alpha
MultiInputs ==
  {[n |-> nn, x |-> Indep(nn), y |-> Unit(nn, nn, 1), alpha |-> AlphaLiteral] :
     nn \in {PMulti - 1, PMulti, MaxNMulti}}
    \cup {[n |-> MaxNMulti, x |-> Collinear(MaxNMulti), y |-> Unit(MaxNMulti, MaxNMulti, 1),
           alpha |-> AlphaLiteral]}

\* the draws of np.random.normal in the y_weights cells: weights 1 and 2
ZValues == {Int2F(-1), Surd(1, 2)}

\* all equal, or the first one different
ZVecs(nn) ==
  {[i \in 1..nn |-> z] : z \in ZValues}
    \cup {[i \in 1..nn |-> IF i = 1 THEN Surd(1, 2) ELSE Int2F(-1)]}

\* the n a y_weights cell draws size=(n,) with
CurN == IF "n" \in DOMAIN glob THEN Val(glob["n"]).num ELSE PUni

(***************************************************************************)
(* The state machine.                                                      *)
(***************************************************************************)
\* the code cells that are modelled, in the order of the document
DocOrder ==
  <<"uni_setup", "uni_linregress", "uni_sp_CL", "uni_sp_PL", "uni_sk_fit", "uni_sk_CL",
    "uni_sk_PL", "uni_weights", "uni_skw_fit", "uni_skw_CL", "uni_skw_PL", "multi_setup",
    "multi_sk_fit", "multi_sk_CL", "multi_sk_PL", "multi_weights", "multi_skw_fit",
    "multi_skw_CL", "multi_skw_PL">>

\* the cell c can be run now: any cell by hand, or the next one of the document when
\* the kernel runs all cells, which stops at the first cell that raises
CanRun(c) ==
  IF mode = "any order"
  THEN steps < MaxSteps
  ELSE steps < Len(DocOrder) /\ DocOrder[steps + 1] = c /\ err = ""

\* running a cell: the kernel keeps what the cell assigned before it raised, and
\* writer remembers the cell that last assigned each name
RunCell(c, st0) ==
  /\ CanRun(c)
  /\ mode' = mode
  /\ \E st \in {st0} :
       /\ steps' = steps + 1
       /\ cell' = c
       /\ glob' = st.g
       /\ err' = st.err
       /\ writer' = [nm \in DOMAIN st.g |-> IF nm \in st.w THEN c ELSE writer[nm]]

\* a fresh kernel, after the import cell
Init ==
  /\ glob = [k \in {} |-> NoneV]
  /\ err = ""
  /\ cell = "import"
  /\ steps = 0
  /\ writer = [k \in {} |-> ""]
  /\ mode = "any order"

\* a fresh kernel that runs all cells, once each from top to bottom
InitDoc ==
  /\ glob = [k \in {} |-> NoneV]
  /\ err = ""
  /\ cell = "import"
  /\ steps = 0
  /\ writer = [k \in {} |-> ""]
  /\ mode = "document order"

UniSetup ==
  \E inp \in UniInputs :
    RunCell("uni_setup", UniSetupBody(Start(glob), inp.n, inp.x, inp.y, inp.alpha))

UniLinregress == RunCell("uni_linregress", LinregressBody(Start(glob)))

UniSpCL == RunCell("uni_sp_CL", UniCLBody(Start(glob), SpSlope, SpIntercept))

UniSpPL == RunCell("uni_sp_PL", PLBody(Start(glob)))

UniSkFit == RunCell("uni_sk_fit", UniSkFitBody(Start(glob)))

UniSkCL == RunCell("uni_sk_CL", UniCLBody(Start(glob), SkSlope, SkIntercept0))

UniSkPL == RunCell("uni_sk_PL", PLBody(Start(glob)))

UniWeights ==
  \E zs \in ZVecs(CurN) : RunCell("uni_weights", UniWeightsBody(Start(glob), zs))

UniSkwFit == RunCell("uni_skw_fit", UniSkwFitBody(Start(glob)))

UniSkwCL == RunCell("uni_skw_CL", UniCLWBody(Start(glob)))

UniSkwPL == RunCell("uni_skw_PL", PLWBody(Start(glob)))

MultiSetup ==
  \E inp \in MultiInputs :
    RunCell("multi_setup",
            MultiSetupBody(Start(glob), inp.n, inp.x[1], inp.x[2], inp.x[3], inp.y, inp.alpha))

MultiSkFit == RunCell("multi_sk_fit", MultiSkFitBody(Start(glob)))

MultiSkCL == RunCell("multi_sk_CL", MultiCLBody(Start(glob)))

MultiSkPL == RunCell("multi_sk_PL", PLBody(Start(glob)))

MultiWeights ==
  \E zs \in ZVecs(CurN) : RunCell("multi_weights", MultiWeightsBody(Start(glob), zs))

MultiSkwFit == RunCell("multi_skw_fit", MultiSkwFitBody(Start(glob)))

MultiSkwCL == RunCell("multi_skw_CL", MultiCLWBody(Start(glob)))

MultiSkwPL == RunCell("multi_skw_PL", PLWBody(Start(glob)))

Next ==
  \/ UniSetup
  \/ UniLinregress
  \/ UniSpCL
  \/ UniSpPL
  \/ UniSkFit
  \/ UniSkCL
  \/ UniSkPL
  \/ UniWeights
  \/ UniSkwFit
  \/ UniSkwCL
  \/ UniSkwPL
  \/ MultiSetup
  \/ MultiSkFit
  \/ MultiSkCL
  \/ MultiSkPL
  \/ MultiWeights
  \/ MultiSkwFit
  \/ MultiSkwCL
  \/ MultiSkwPL

Spec == Init /\ [][Next]_vars

SpecDoc == InitDoc /\ [][Next]_vars

(***************************************************************************)
(* What the properties below speak of.                                     *)
(***************************************************************************)
\* the cells that fit, that compute a confidence half-width, a prediction half-width
FitCells == {"uni_linregress", "uni_sk_fit", "uni_skw_fit", "multi_sk_fit", "multi_skw_fit"}

WeightedFitCells == {"uni_skw_fit", "multi_skw_fit"}

CLCells == {"uni_sp_CL", "uni_sk_CL", "uni_skw_CL", "multi_sk_CL", "multi_skw_CL"}

PLCells == {"uni_sp_PL", "uni_sk_PL", "uni_skw_PL", "multi_sk_PL", "multi_skw_PL"}

WeightedPLCells == {"uni_skw_PL", "multi_skw_PL"}

UniCells ==
  {"uni_setup", "uni_linregress", "uni_sp_CL", "uni_sp_PL", "uni_sk_fit", "uni_sk_CL",
   "uni_sk_PL", "uni_weights", "uni_skw_fit", "uni_skw_CL", "uni_skw_PL"}

\* the namespace as the next cell finds it
Here == Start(glob)

Bound(names) == names \subseteq DOMAIN glob

\* a number: no exception, no dimensions, finite
IsNum(v) == v.exc = "" /\ Ndim(v) = 0 /\ IsFin(Val(v))

Pos(v) == IsNum(v) /\ Val(v).num > 0

Zero(v) == IsNum(v) /\ Val(v).num = 0

\* what the PL cell that ran last computes from the names in scope, and the confidence
\* half-width, critical value and residual scale the same names give
HalfPL == IF cell \in WeightedPLCells THEN PLMagnitudeW(Here) ELSE PLMagnitude(Here)

HalfCL == IF cell \in WeightedPLCells THEN CLMagnitudeW(Here) ELSE CLMagnitude(Here)

\* s_squared_value in the weighted cells, s_value in the unweighted ones
ResidualScale ==
  IF cell \in WeightedPLCells THEN Load(Here, "s_squared_value") ELSE Load(Here, "s_value")

\* a PL cell has computed its half-width from a finite critical value, residual scale
\* and leverage term
Estimated ==
  /\ cell \in PLCells
  /\ IsNum(HalfPL)
  /\ IsNum(HalfCL)
  /\ IsNum(TCrit(Here))
  /\ IsNum(ResidualScale)
  /\ IsNum(Load(Here, "inner_sqrt_term"))
  /\ Val(Load(Here, "inner_sqrt_term")).num >= 0

\* n and p in scope
N == Val(glob["n"]).num

P == Val(glob["p"]).num

\* the data of the section the last cell belongs to are in scope, n rows and p parameters
InScope ==
  IF cell \in UniCells
  THEN /\ Bound({"n", "p", "x", "y"})
       /\ P = PUni
       /\ glob["x"].shape = <<N, 1>>
       /\ glob["y"].shape = <<N, 1>>
  ELSE /\ Bound({"n", "p", "x_design", "y"})
       /\ P = PMulti
       /\ glob["x_design"].shape = <<N, P>>
       /\ glob["y"].shape = <<N, 1>>

\* the number of coefficients of the fit a CL cell reads
Coefs ==
  CASE cell = "uni_sp_CL" -> 2
    [] cell = "uni_sk_CL" -> Size(glob["sk_result.coef_"]) + Size(glob["sk_result.intercept_"])
    [] cell = "uni_skw_CL" -> Size(glob["sk_weighted_result.coef_"])
                                + Size(glob["sk_weighted_result.intercept_"])
    [] cell = "multi_sk_CL" -> Size(glob["sk_result.coef_"])
    [] cell = "multi_skw_CL" -> Size(glob["sk_weighted_result.coef_"])
    [] OTHER -> 0

\* X^T X is singular
RankDeficient(X) ==
  /\ X.exc = ""
  /\ Ndim(X) = 2
  /\ AllRational(X)
  /\ Singular(Gram(X, Ones(X.shape[1]), X))

\* the results of a fit that the CL and PL cells read
FitNames ==
  {"sp_result.slope", "sp_result.intercept", "sk_result.coef_", "sk_result.intercept_",
   "sk_weighted_result.coef_", "sk_weighted_result.intercept_", "residuals", "s_value",
   "s_squared_value"}

\* column j (from 0) of the 2-D array a, as a sequence
Column(a, j) == [i \in 1..a.shape[1] |-> a.data[(i - 1) * a.shape[2] + j + 1]]

\* the weights a weighted fit that succeeded has used
UsedWeights ==
  IF cell = "uni_skw_fit"
  THEN SkWeights(glob["x"], glob["y_weights"])
  ELSE SkWeights(glob["x_design"], Index0(T(glob["y_weights"])))

(***************************************************************************)
(* The properties.                                                         *)
(***************************************************************************)
\* C1, as stated: whenever a PL cell has computed its half-width at a positive
\* critical value, the prediction half-width is strictly greater than the confidence
\* half-width of the same names, also when the residual variance is 0.
C1_StrictAlways ==
  (Estimated /\ Pos(TCrit(Here))) => FLt(Val(HalfCL), Val(HalfPL))

\* C1, amended: the prediction half-width is strictly greater than the confidence
\* half-width when the residual variance and the critical value are positive; when
\* either is 0, both half-widths are 0.
C1_StrictWhenPositive ==
  Estimated =>
    /\ (Pos(ResidualScale) /\ Pos(TCrit(Here))) => FLt(Val(HalfCL), Val(HalfPL))
    /\ (Zero(ResidualScale) \/ Zero(TCrit(Here))) =>
         (Val(HalfCL) = Int2F(0) /\ Val(HalfPL) = Int2F(0))

\* the weighted PL cell has run on a fit with positive residual variance, and its
\* half-width is the greater
C1_Reached ==
  /\ cell = "multi_skw_PL"
  /\ Estimated
  /\ Pos(ResidualScale)
  /\ Pos(TCrit(Here))
  /\ glob["one_sided_PL_magnitude"] = HalfPL
  /\ FLt(Val(glob["one_sided_CL_magnitude"]), Val(glob["one_sided_PL_magnitude"]))

\* C2: a fit cell or a CL cell that runs on data with n <= p ends in an error.
C2_FewSamplesRejected ==
  (cell \in FitCells \cup CLCells /\ InScope /\ N <= P) => err # ""

\* the linregress cell has fitted n = p points without an error
C2_Reached ==
  /\ cell = "uni_linregress"
  /\ err = ""
  /\ InScope
  /\ N = P
  /\ Bound({"sp_result.slope", "sp_result.intercept"})

\* C3: a weighted fit only succeeds when y_weights has one entry for each of the n
\* rows and every entry is strictly positive.
C3_WeightsChecked ==
  (cell \in WeightedFitCells /\ err = "") =>
    /\ Size(glob["y_weights"]) = glob["y"].shape[1]
    /\ \A i \in 1..Size(glob["y_weights"]) : FLt(Int2F(0), glob["y_weights"].data[i])

\* the multivariate weighted fit has succeeded on n rows with a y_weights of another
\* length
C3_Reached ==
  /\ cell = "multi_skw_fit"
  /\ err = ""
  /\ InScope
  /\ Ndim(glob["y_weights"]) = 1
  /\ Size(glob["y_weights"]) # N
  /\ Bound({"sk_weighted_result.coef_"})

\* C4: a CL or PL cell that runs with alpha outside the open interval (0, 1) ends in
\* an error.
C4_SignificanceChecked ==
  (/\ cell \in CLCells \cup PLCells
   /\ Bound({"alpha"})
   /\ ~(FLt(Int2F(0), Val(glob["alpha"])) /\ FLt(Val(glob["alpha"]), Int2F(1)))) => err # ""

\* a CL cell has run to its end with alpha = 1, and its half-width is 0
C4_Reached ==
  /\ cell \in CLCells
  /\ err = ""
  /\ glob["alpha"] = Num(1)
  /\ glob["one_sided_CL_magnitude"] = Num(0)

\* C5: a CL cell only succeeds when the query vector has as many entries as the fit
\* it reads has coefficients.
C5_QueryLengthChecked ==
  (cell \in CLCells /\ err = "") => Size(glob["x_to_predict_col_vec"]) = Coefs

\* the CL cell of the linregress fit, of two coefficients, has run to its end with the
\* query vector of the multivariate section, of four entries
C5_Reached ==
  /\ cell = "uni_sp_CL"
  /\ err = ""
  /\ Size(glob["x_to_predict_col_vec"]) = PMulti
  /\ Bound({"y_estimated", "inner_sqrt_term", "one_sided_CL_magnitude"})

\* C6: a fit cell that runs on a design matrix whose columns are linearly dependent
\* ends in an error.
C6_SingularRejected ==
  (/\ cell \in {"multi_sk_fit", "multi_skw_fit"}
   /\ Bound({"x_design"})
   /\ RankDeficient(glob["x_design"])) => err # ""

\* the multivariate fit has succeeded on n > p rows whose columns are linearly
\* dependent
C6_Reached ==
  /\ cell = "multi_sk_fit"
  /\ err = ""
  /\ InScope
  /\ N > P
  /\ RankDeficient(glob["x_design"])
  /\ Bound({"sk_result.coef_"})

\* C7: a CL or PL cell that ends in an error leaves the namespace as it found it.
C7_AllOrNothing ==
  [][(cell' \in CLCells \cup PLCells /\ err' # "") => glob' = glob]_vars

\* the multivariate CL cell has stopped at np.linalg.inv, and what it assigned before
\* is in scope
C7_Reached ==
  /\ cell = "multi_sk_CL"
  /\ err = "LinAlgError"
  /\ Bound({"residuals", "s_value", "y_estimated"})
  /\ ~Bound({"inner_sqrt_term"})

\* C8: a CL or PL cell changes none of the results of a fit that are in scope.
C8_EstimateReadsOnly ==
  [][cell' \in CLCells \cup PLCells =>
       \A nm \in FitNames \cap DOMAIN glob : glob'[nm] = glob[nm]]_vars

\* the CL cell of the linregress fit has run to its end a second time, after a set-up
\* cell that made n = p, and has left an infinite s_value for the fit whose residuals
\* are not 0
C8_Reached ==
  /\ cell = "uni_sp_CL"
  /\ err = ""
  /\ steps = MaxSteps
  /\ InScope
  /\ N = P
  /\ glob["s_value"] = Scalar(Inf(1))

\* C9: a weighted fit whose weights are all the same positive number has the
\* coefficients and the intercept of the unweighted fit of the same data.
C9_UniformWeights ==
  (/\ cell \in WeightedFitCells
   /\ err = ""
   /\ IsConst(UsedWeights)
   /\ FLt(Int2F(0), UsedWeights.data[1])) =>
    IF cell = "uni_skw_fit"
    THEN /\ glob["sk_weighted_result.coef_"] = SkCoef(glob["x"], glob["y"], NoneV, TRUE)
         /\ glob["sk_weighted_result.intercept_"]
              = SkIntercept(glob["x"], glob["y"], NoneV, TRUE,
                            SkCoef(glob["x"], glob["y"], NoneV, TRUE))
    ELSE glob["sk_weighted_result.coef_"]
           = SkCoef(glob["x_design"], glob["y"], NoneV, FALSE)

\* the univariate weighted fit has run with every weight 2 on data off the line
C9_Reached ==
  /\ cell = "uni_skw_fit"
  /\ err = ""
  /\ glob["y_weights"].data = Take([i \in 1..MaxN |-> Int2F(2)], MaxN)
  /\ glob["y"] = ColVec(OffLine(MaxN))
  /\ glob["sk_weighted_result.intercept_"].data # <<Int2F(0)>>

\* C10: after a set-up cell x_design has n rows and one column more than there are
\* predictors, its column 0 is all ones and the predictors follow in their order.
C10_DesignMatrix ==
  /\ cell = "uni_setup" =>
       /\ glob["x_design"].shape = <<N, 2>>
       /\ Column(glob["x_design"], 0) = [i \in 1..N |-> Int2F(1)]
       /\ Column(glob["x_design"], 1) = Column(glob["x"], 0)
  /\ cell = "multi_setup" =>
       /\ glob["x_design"].shape = <<N, PMulti>>
       /\ Column(glob["x_design"], 0) = [i \in 1..N |-> Int2F(1)]

\* the univariate set-up cell has left an x_design of one column
C10_Reached ==
  /\ cell = "uni_setup"
  /\ glob["x_design"].shape = <<N, 1>>
  /\ glob["x_design"] = glob["x"]

\* the regression task a cell belongs to
Section(c) == IF c \in UniCells THEN "univariate" ELSE "multivariate"

\* the coefficients the estimate of cell c is for
FitOf(c) ==
  CASE c \in {"uni_sp_CL", "uni_sp_PL"} -> "sp_result.slope"
    [] c \in {"uni_sk_CL", "uni_sk_PL", "multi_sk_CL", "multi_sk_PL"} -> "sk_result.coef_"
    [] OTHER -> "sk_weighted_result.coef_"

\* the CL cell whose results the PL cell c reads
CLOf(c) ==
  CASE c = "uni_sp_PL" -> "uni_sp_CL"
    [] c = "uni_sk_PL" -> "uni_sk_CL"
    [] c = "uni_skw_PL" -> "uni_skw_CL"
    [] c = "multi_sk_PL" -> "multi_sk_CL"
    [] OTHER -> "multi_skw_CL"

\* the name of the residual variance in the cell c
ScaleName(c) ==
  IF c \in {"uni_skw_CL", "uni_skw_PL", "multi_skw_CL", "multi_skw_PL"}
  THEN "s_squared_value" ELSE "s_value"

\* what an estimate cell reads of its task: the design matrix, n, p, the query and
\* the weights in a CL cell; n, p, the residual variance and the leverage in a PL cell
TaskNames(c) ==
  IF c \in PLCells THEN {"n", "p", ScaleName(c), "inner_sqrt_term"}
  ELSE {"n", "p", "x_design", "x_to_predict_col_vec"}
         \cup (IF c \in {"uni_skw_CL", "multi_skw_CL"} THEN {"y_weights"} ELSE {})

\* C11: an estimate cell that runs to its end has read a design matrix, n, p, weights,
\* residual variance, leverage and query that the task of its coefficients produced.
C11_OwnTaskOnly ==
  (cell \in CLCells \cup PLCells /\ err = "" /\ FitOf(cell) \in DOMAIN writer) =>
    \A nm \in TaskNames(cell) :
      Section(writer[nm]) = Section(writer[FitOf(cell)])

\* the CL cell of the linregress fit has run to its end on the design matrix, n, p and
\* query of the multivariate set-up
C11_Reached ==
  /\ cell = "uni_sp_CL"
  /\ err = ""
  /\ writer["sp_result.slope"] = "uni_linregress"
  /\ \A nm \in TaskNames(cell) : writer[nm] = "multi_setup"
  /\ writer["one_sided_CL_magnitude"] = "uni_sp_CL"

\* the residual variance s^2 and the leverage h in scope at a PL cell, and t^2 s^2
Variance ==
  IF cell \in WeightedPLCells THEN Load(Here, "s_squared_value")
  ELSE Pow2(Load(Here, "s_value"))

TSquaredVariance == Mul(Pow2(TCrit(Here)), Variance)

\* C12: when a PL cell has run to its end and the confidence half-width in scope is the
\* one of the same fit, query and alpha, the squared confidence half-width is
\* t^2 s^2 h, the squared prediction half-width is t^2 s^2 (1 + h), and the two differ
\* by t^2 s^2.
C12_HalfWidths ==
  (/\ Estimated
   /\ err = ""
   /\ glob["one_sided_CL_magnitude"] = HalfCL
   /\ IsNum(Mul(TSquaredVariance, Add(Num(1), glob["inner_sqrt_term"])))) =>
    /\ Pow2(glob["one_sided_CL_magnitude"])
         = Mul(TSquaredVariance, glob["inner_sqrt_term"])
    /\ Pow2(glob["one_sided_PL_magnitude"])
         = Mul(TSquaredVariance, Add(Num(1), glob["inner_sqrt_term"]))
    /\ Sub(Pow2(glob["one_sided_PL_magnitude"]), Pow2(glob["one_sided_CL_magnitude"]))
         = TSquaredVariance

\* the multivariate weighted PL cell has run after its CL cell, with weights that are
\* not all the same, a positive residual variance and a positive leverage
C12_Reached ==
  /\ cell = "multi_skw_PL"
  /\ Estimated
  /\ err = ""
  /\ glob["one_sided_CL_magnitude"] = HalfCL
  /\ writer["one_sided_CL_magnitude"] = "multi_skw_CL"
  /\ ~IsConst(glob["y_weights"])
  /\ Pos(Variance)
  /\ Pos(glob["inner_sqrt_term"])
  /\ Pos(TSquaredVariance)
  /\ IsNum(Mul(TSquaredVariance, Add(Num(1), glob["inner_sqrt_term"])))

\* every weight in scope is 1
UnitWeights ==
  /\ Bound({"y_weights"})
  /\ glob["y_weights"].exc = ""
  /\ \A i \in 1..Size(glob["y_weights"]) : glob["y_weights"].data[i] = Int2F(1)

\* the names in scope with the s_value and inner_sqrt_term that the unweighted CL cell
\* computes from the same residuals, n, p, design matrix and query
Unweighted ==
  Start(Bind(Bind(glob, "s_value", SValue(Here)),
             "inner_sqrt_term", Index00(Leverage(Here))))

\* C13: with every weight 1, a weighted CL cell that runs to its end leaves the residual
\* variance, the leverage and the confidence half-width of the unweighted formulas, and
\* a weighted PL cell that reads them leaves the unweighted prediction half-width.
C13_UnitWeights ==
  /\ (cell \in {"uni_skw_CL", "multi_skw_CL"} /\ err = "" /\ UnitWeights) =>
       /\ glob["s_squared_value"] = Pow2(Load(Unweighted, "s_value"))
       /\ glob["inner_sqrt_term"] = Load(Unweighted, "inner_sqrt_term")
       /\ glob["one_sided_CL_magnitude"] = CLMagnitude(Unweighted)
  /\ (/\ cell \in WeightedPLCells
      /\ err = ""
      /\ UnitWeights
      /\ Bound({"residuals"})
      /\ glob["s_squared_value"] = Pow2(Load(Unweighted, "s_value"))
      /\ glob["inner_sqrt_term"] = Load(Unweighted, "inner_sqrt_term")) =>
       glob["one_sided_PL_magnitude"] = PLMagnitude(Unweighted)

\* the multivariate weighted PL cell has run after its CL cell with unit weights on
\* data off the fitted plane, and its half-width is positive
C13_Reached ==
  /\ cell = "multi_skw_PL"
  /\ err = ""
  /\ UnitWeights
  /\ writer["s_squared_value"] = "multi_skw_CL"
  /\ glob["s_squared_value"] = Pow2(Load(Unweighted, "s_value"))
  /\ glob["inner_sqrt_term"] = Load(Unweighted, "inner_sqrt_term")
  /\ Pos(glob["s_squared_value"])
  /\ Pos(glob["one_sided_PL_magnitude"])

\* C14: when all cells are run in document order, at every CL and PL cell n and p are the numbers of rows and
\* columns of the x_design in scope, the query has p entries, the weights of a weighted
\* CL cell have n entries, and the residual variance, the leverage and the estimate a
\* PL cell reads were last assigned by the CL cell of the same fit.
C14_DocumentOrder ==
  cell \in CLCells \cup PLCells =>
    /\ Bound({"n", "p", "x_design", "x_to_predict_col_vec"})
    /\ glob["x_design"].shape = <<N, P>>
    /\ Size(glob["x_to_predict_col_vec"]) = P
    /\ cell \in {"uni_skw_CL", "multi_skw_CL"} =>
         Bound({"y_weights"}) /\ Size(glob["y_weights"]) = N
    /\ cell \in PLCells =>
         \A nm \in {ScaleName(cell), "inner_sqrt_term", "y_estimated"} :
           nm \in DOMAIN writer /\ writer[nm] = CLOf(cell)

\* the run in document order has reached the end of the last cell, the weighted PL
\* cell of the multivariate section, which has read what its CL cell left
C14_Reached ==
  /\ mode = "document order"
  /\ steps = Len(DocOrder)
  /\ cell = "multi_skw_PL"
  /\ err = ""
  /\ glob["x_design"].shape = <<N, PMulti>>
  /\ writer["s_squared_value"] = "multi_skw_CL"
  /\ writer["one_sided_PL_magnitude"] = "multi_skw_PL"

=============================================================================
